---------------------------- MODULE Spec2Model ----------------------------
(***************************************************************************)
(* A model of getopt-js (src/getopt.js, kept here as src/unnamed/part_001). *)
(*                                                                         *)
(* Representation of JavaScript values                                     *)
(*   string      a tuple of one-character strings: 'MF' is <<"M","F">>     *)
(*   undefined   Undefined, true/false  JsTrue/JsFalse: tuples holding one *)
(*               word, so that they differ from every string               *)
(*   object      a record whose DOMAIN is the set of keys that are present *)
(*   array       a tuple                                                   *)
(*   number      Num(n), a tuple that differs from all of the above        *)
(*   string|array fields of an option (name, short, long) are tagged with  *)
(*               Str(..) / Arr(..) because the code tests Array.isArray;   *)
(*               so is a usage string, because the code tests isString     *)
(*   a normalized option is referred to by its index in settings.options   *)
(*   (the code compares and shares option objects by identity)             *)
(***************************************************************************)
EXTENDS Integers, Sequences, FiniteSets, TLC

\* The largest number of tokens passed to one call.
MaxArgs == 3

\* No further call is made once an array that is reached through
\* Object.prototype holds this many items.
MaxInherited == 3

\* The widest terminal, in columns, that a call finds itself on.
MaxColumns == 2

Undefined == <<"undefined">>
JsTrue    == <<"true">>
JsFalse   == <<"false">>

\* A JavaScript number: a tuple that differs from every string and from
\* undefined, true and false.
Num(n) == <<"number", ToString(n)>>
NaN    == <<"NaN">>

Str(s) == [isArray |-> FALSE, v |-> s]
Arr(a) == [isArray |-> TRUE, v |-> a]

\* Mutant: the string 'none' counts as false, as a mode of no argument.
JsTruthyOfMode(v) == v \notin {Undefined, JsFalse, <<>>, <<"n","o","n","e">>}

\* JavaScript truthiness of undefined, a boolean or a string.
JsTruthy(v) == v \notin {Undefined, JsFalse, <<>>}

\* o[k] of a JavaScript object: undefined when the key is absent.
Get(o, k) == IF k \in DOMAIN o THEN o[k] ELSE Undefined

\* Object.assign({}, a, b)
Assign(a, b) ==
    [k \in (DOMAIN a) \cup (DOMAIN b) |-> IF k \in DOMAIN b THEN b[k] ELSE a[k]]

\* Mutant: the substring starts one character late.
SubstringAfter(s, a) == SubSeq(s, a + 2, Len(s))

\* s.substring(a, b) and s.substring(a), with 0-based offsets.
Substring(s, a, b) == SubSeq(s, a + 1, b)
SubstringFrom(s, a) == SubSeq(s, a + 1, Len(s))

\* Mutant: the last offset that holds ch (lastIndexOf).
IndexOfLast(s, ch, from) ==
    LET hits == {i \in from..(Len(s) - 1) : s[i + 1] = ch}
    IN  IF hits = {} THEN -1 ELSE CHOOSE i \in hits : \A h \in hits : h <= i

\* s.indexOf(ch, from): the first 0-based offset >= from holding ch, or -1.
IndexOf(s, ch, from) ==
    LET hits == {i \in from..(Len(s) - 1) : s[i + 1] = ch}
    IN  IF hits = {} THEN -1 ELSE CHOOSE i \in hits : \A h \in hits : i <= h

\* arg[0] === '-'
StartsWithDash(arg) == Len(arg) >= 1 /\ arg[1] = "-"

-----------------------------------------------------------------------------
(* Tokens *)

tEmpty    == <<>>
tDash     == <<"-">>
tDashDash == <<"-","-">>
tX        == <<"x">>
tBundle   == <<"-","M","M","G","M","P","M","F","f","i","l","e">>
tMF       == <<"-","M","F">>
tMGM      == <<"-","M","G","M">>
tMX       == <<"-","M","X">>
tV        == <<"-","v">>
tO        == <<"-","o">>
tVerbose  == <<"-","-","v","e","r","b","o","s","e">>
tOut      == <<"-","-","o","u","t">>
tOutE     == <<"-","-","o","u","t","=">>
tOutABC   == <<"-","-","o","u","t","=","b","=","c">>
tQuietX   == <<"-","-","q","u","i","e","t","=","x">>
tQuietE   == <<"-","-","q","u","i","e","t","=">>
tBar      == <<"-","b","a","r">>
tA        == <<"-","a">>
tB        == <<"-","b">>
tABC      == <<"-","a","b","c">>
tABBC     == <<"-","a","b","b","c">>
tN        == <<"-","n">>
tR        == <<"-","r">>
tNoneX    == <<"-","-","n","o","n","e","=","x">>
tOpt      == <<"-","-","o","p","t">>
tC        == <<"-","c">>
tColor    == <<"-","-","c","o","l","o","r">>
tColorE   == <<"-","-","c","o","l","o","r","=">>
tAA       == <<"-","a","a">>
tLongA    == <<"-","-","a">>
tK        == <<"-","k">>
tKT       == <<"-","k","t">>
tTK       == <<"-","t","k">>
tP        == <<"-","p">>
tConstructor == <<"-","-","c","o","n","s","t","r","u","c","t","o","r">>
tT        == <<"-","t">>
tDashX    == <<"-","x">>

(* Settings given by the caller *)

\* The settings of test('multi-character short-option sequence'), with
\* callbacks and a wrap width added. Settings that give a wrap width other
\* than true do not read the width of the terminal.
BundleSettings ==
    [options |-> <<
        [short |-> Str(<<"M">>)],
        [short |-> Str(<<"M","F">>), argument |-> JsTrue],
        [short |-> Str(<<"M","G">>), callback |-> TRUE],
        [short |-> Str(<<"M","P">>)] >>,
     callback |-> TRUE,
     wrap |-> Num(72)]

LongSettings ==
    [options |-> <<
        [name |-> Str(<<"v","e","r","b">>), short |-> Str(<<"v">>),
         long |-> Arr(<< <<"v","e","r","b","o","s","e">> >>), callback |-> TRUE],
        [short |-> Str(<<"o">>), long |-> Str(<<"o","u","t">>),
         argument |-> <<"f","i","l","e">>, callback |-> TRUE],
        [long |-> Str(<<"q","u","i","e","t">>), argument |-> JsFalse] >>,
     callback |-> TRUE,
     error |-> TRUE,
     wrap |-> JsFalse]

\* No options key at all: the defaults apply.
BareSettings == [first |-> JsFalse]

\* An option that has neither a short nor a long form.
InvalidSettings ==
    [options |-> << [short |-> Str(<<"a">>)], [name |-> Str(<<"n">>)] >>,
     error |-> TRUE]

\* An option whose short and long forms are empty lists.
EmptyFormsSettings ==
    [options |-> << [name |-> Str(<<"n">>), short |-> Arr(<<>>), long |-> Arr(<<>>)] >>,
     callback |-> TRUE]

\* Two options that declare the same short form.
DuplicateSettings ==
    [options |-> <<
        [short |-> Str(<<"a">>), long |-> Str(<<"a","l","l">>)],
        [short |-> Str(<<"a">>), argument |-> JsTrue] >>]

\* Two options that are indexed by the same name.
SharedNameSettings ==
    [options |-> <<
        [name |-> Str(<<"x">>), short |-> Str(<<"a">>)],
        [name |-> Str(<<"x">>), short |-> Str(<<"b">>)] >>,
     wrap |-> JsTrue]

\* The argument given as one of the strings none, required, optional.
ModeSettings ==
    [options |-> <<
        [short |-> Str(<<"n">>), long |-> Str(<<"n","o","n","e">>),
         argument |-> <<"n","o","n","e">>],
        [short |-> Str(<<"r">>), argument |-> <<"r","e","q","u","i","r","e","d">>],
        [long |-> Str(<<"o","p","t">>),
         argument |-> <<"o","p","t","i","o","n","a","l">>] >>,
     wrap |-> Num(72)]

\* An option whose argument is optional.
OptionalSettings ==
    [options |-> <<
        [short |-> Str(<<"c">>), long |-> Str(<<"c","o","l","o","r">>),
         argument |-> JsTrue, optional |-> TRUE, callback |-> TRUE],
        [short |-> Str(<<"v">>)] >>,
     error |-> TRUE,
     wrap |-> Num(72)]

\* Short forms of which one is a prefix of another, and a long form.
PrefixSettings ==
    [options |-> <<
        [short |-> Arr(<< <<"a">>, <<"a","b">> >>)],
        [short |-> Str(<<"b","c">>)],
        [long |-> Str(<<"c">>)] >>,
     wrap |-> JsFalse]

\* An option whose callback throws (callback |-> FALSE; a callback that
\* returns is callback |-> TRUE) and one whose callback returns.
ThrowingSettings ==
    [options |-> <<
        [short |-> Str(<<"t">>), callback |-> FALSE],
        [short |-> Str(<<"k">>), callback |-> TRUE] >>,
     callback |-> TRUE, error |-> TRUE, wrap |-> Num(72)]

\* An error hook that throws (error |-> FALSE; a hook that returns is
\* error |-> TRUE), with an option whose callback throws and one whose
\* callback returns; -x is not registered.
FaultyHookSettings ==
    [options |-> <<
        [short |-> Str(<<"t">>), callback |-> FALSE],
        [short |-> Str(<<"k">>), callback |-> TRUE] >>,
     callback |-> TRUE, error |-> FALSE]

\* A callback of the settings that throws (callback |-> FALSE), with an error
\* hook that returns and an option whose name is inherited from
\* Object.prototype.
FaultyCallbackSettings ==
    [options |-> <<
        [short |-> Str(<<"k">>), callback |-> TRUE],
        [name |-> Str(<<"t","o","S","t","r","i","n","g">>), short |-> Str(<<"p">>)] >>,
     callback |-> FALSE, error |-> TRUE, wrap |-> Num(72)]

\* Options with keys that a plain object inherits from Object.prototype, an
\* option that is named value, and an option whose name is its short form.
PrototypeSettings ==
    [options |-> <<
        [name |-> Str(<<"_","_","p","r","o","t","o","_","_">>), short |-> Str(<<"p">>)],
        [name |-> Str(<<"v","a","l","u","e">>), short |-> Str(<<"v">>)],
        [long |-> Str(<<"c","o","n","s","t","r","u","c","t","o","r">>)],
        [name |-> Str(<<"r">>), short |-> Str(<<"r">>)] >>,
     wrap |-> JsFalse]

\* The inputs of a call: the caller's settings and the tokens to draw from.
Scenarios == {
    [settings |-> BundleSettings,
     tokens   |-> {tBundle, tMF, tMGM, tMX, tEmpty, tDashDash}],
    [settings |-> LongSettings,
     tokens   |-> {tV, tO, tVerbose, tOutABC, tX, tDashDash}],
    [settings |-> LongSettings,
     tokens   |-> {tOut, tOutE, tOutABC, tQuietX, tQuietE, tX}],
    [settings |-> BareSettings,
     tokens   |-> {tEmpty, tDash, tDashDash, tX, tBar}],
    [settings |-> InvalidSettings,
     tokens   |-> {tX}],
    [settings |-> EmptyFormsSettings,
     tokens   |-> {tX}],
    [settings |-> DuplicateSettings,
     tokens   |-> {tA, tAA, tX}],
    [settings |-> SharedNameSettings,
     tokens   |-> {tA, tB}],
    [settings |-> ModeSettings,
     tokens   |-> {tN, tR, tNoneX, tOpt, tX}],
    [settings |-> OptionalSettings,
     tokens   |-> {tC, tV, tColor, tDashDash, tDash, tX}],
    [settings |-> OptionalSettings,
     tokens   |-> {tColorE, tX}],
    [settings |-> PrefixSettings,
     tokens   |-> {tABC, tABBC, tA, tLongA}],
    [settings |-> ThrowingSettings,
     tokens   |-> {tK, tKT, tTK}],
    [settings |-> PrototypeSettings,
     tokens   |-> {tP, tV, tConstructor, tR}],
    [settings |-> FaultyHookSettings,
     tokens   |-> {tK, tT, tDashX}],
    [settings |-> FaultyCallbackSettings,
     tokens   |-> {tK, tP}] }

\* All token arrays of at most `most` tokens drawn from a set.
ArgsOver(T, most) == UNION {[1..n -> T] : n \in 0..most}

-----------------------------------------------------------------------------
(* The state of a getopt(args, settings) call *)

VARIABLES
    pc,              \* getopt: "idle", "scan" (inside Array.from), "done" or
                     \* "failed"; parse: "created", "pull", "exhausted", "raised"
    args,            \* the caller's token array
    callerSettings,  \* the caller's settings object
    settings,        \* the normalized settings of the call
    sc,              \* the locals of _parse1
    gen,             \* where _parse1 stands: the yield it is suspended at
    idx,             \* the tokens that the token loop has taken out of args,
                     \* plus one
    events,          \* the results yielded by _parse1 so far
    trace,           \* the callbacks invoked so far, in order
    result,          \* the value returned by getopt
    error,           \* the error thrown by getopt
    prev,            \* the outcome of the preceding call when this one repeats it
    inherited        \* the `value` properties written through Object.prototype

vars == <<pc, args, callerSettings, settings, sc, gen, idx, events, trace,
          result, error, prev, inherited>>

-----------------------------------------------------------------------------
(* Validation and normalization *)

\* The checks of the entries j, j+1, ... of an array field: one error for
\* every entry that is an empty string, with its 0-based place in the message.
RECURSIVE EntryErrors(_, _, _, _)
EntryErrors(entries, i, f, j) ==
    IF j > Len(entries) THEN <<>>
    ELSE (IF Len(entries[j]) = 0
          THEN << "settings.options[" \o ToString(i) \o "]." \o f \o "["
                  \o ToString(j - 1) \o "] must not be an empty string" >>
          ELSE <<>>)
         \o EntryErrors(entries, i, f, j + 1)

\* The checks of one string|array field (name, short or long) of
\* settings.options[i].
FieldErrors(option, i, f) ==
    IF f \notin DOMAIN option THEN <<>>
    ELSE IF ~option[f].isArray
         THEN IF Len(option[f].v) = 0
              THEN << "settings.options[" \o ToString(i) \o "]." \o f
                      \o " must not be an empty string" >>
              ELSE <<>>
         ELSE EntryErrors(option[f].v, i, f, 1)

\* Mutant: only the absence of the field is tested, not its length.
NoFormAbsent(option, f) == f \notin DOMAIN option

\* option.short == null || option.short.length === 0
NoForm(option, f) == f \notin DOMAIN option \/ Len(option[f].v) = 0

\* The checks of settings.options[i], i counted from 0 as in the messages.
OptionErrors(option, i) ==
    FieldErrors(option, i, "name") \o FieldErrors(option, i, "short")
    \o FieldErrors(option, i, "long")
    \o (IF NoForm(option, "short") /\ NoForm(option, "long")
        THEN << "settings.options[" \o ToString(i)
                \o "] must have a short or long name" >>
        ELSE <<>>)

\* The loop over settings.options.entries(), from the option at place i.
RECURSIVE OptionsErrors(_, _)
OptionsErrors(options, i) ==
    IF i > Len(options) THEN <<>>
    ELSE OptionErrors(options[i], i - 1) \o OptionsErrors(options, i + 1)

\* _validate: the validation errors of the settings, in the order yielded.
Validate(s) ==
    IF "options" \in DOMAIN s THEN OptionsErrors(s.options, 1) ELSE <<>>

_defaultSettings ==
    [first   |-> JsTrue,
     options |-> <<>>,
     \* '[option]... [parameter]...'
     usage   |-> Str(<<"[", "o", "p", "t", "i", "o", "n", "]", ".", ".", ".", " ",
                      "[", "p", "a", "r", "a", "m", "e", "t", "e", "r", "]", ".", ".", ".">>),
     wrap    |-> JsTrue]
_defaultOption    == [description |-> <<>>, optional |-> FALSE]
_defaultWrapWidth == 80

\* process.stdout.columns, read from the environment: undefined where the
\* output is not a terminal (as when the tests of the repository run), the
\* width of the terminal in columns where it is one, which is 0 for a
\* pseudo-terminal whose size was never set. `??` keeps a width of 0.
stdoutColumns == {Undefined} \cup {Num(n) : n \in 0..MaxColumns}

\* Array.isArray(x) ? x : (x != null ? [x] : [])
AsList(option, f) ==
    IF f \notin DOMAIN option THEN <<>>
    ELSE IF option[f].isArray THEN option[f].v ELSE <<option[f].v>>

NormalizeOption(option) ==
    LET o == Assign(_defaultOption, option)
    IN  [k \in (DOMAIN o) \cup {"name", "short", "long"} |->
            IF k \in {"name", "short", "long"} THEN AsList(o, k) ELSE o[k]]

\* String.isString(settings.usage): a usage string is given as Str(..), a
\* usage object as a record of its keys (header, program, spec, footer).
IsUsageString(usage) == "isArray" \in DOMAIN usage

\* +v of a boolean, of a number, or of undefined.
ToNumber(v) ==
    IF v = JsFalse THEN Num(0)
    ELSE IF v = JsTrue THEN Num(1)
    ELSE IF Len(v) = 2 /\ v[1] = "number" THEN v
    ELSE NaN

\* settings.wrap !== true ? +settings.wrap
\*                        : process.stdout.columns ?? _defaultWrapWidth
WrapWidth(wrap, columns) ==
    IF wrap # JsTrue THEN ToNumber(wrap)
    ELSE IF columns # Undefined THEN columns
    ELSE Num(_defaultWrapWidth)

\* _normalize, where process.stdout.columns is columns.
Normalize(s, columns) ==
    LET t == Assign(_defaultSettings, s)
    IN  [k \in DOMAIN t |->
            IF k = "options"
            THEN [i \in 1..Len(t.options) |-> NormalizeOption(t.options[i])]
            ELSE IF k = "usage"
            THEN IF IsUsageString(t.usage) THEN [spec |-> t.usage.v] ELSE t.usage
            ELSE IF k = "wrap" THEN WrapWidth(t.wrap, columns)
            ELSE t[k]]

-----------------------------------------------------------------------------
(* Option registry *)

\* Mutant: one map holds the short and the long forms.
LookupAnyShape(options, f, form) ==
    LET hits == {i \in 1..Len(options) :
                    \E g \in {"short", "long"} :
                        \E j \in 1..Len(options[i][g]) : options[i][g][j] = form}
    IN  IF hits = {} THEN 0 ELSE CHOOSE i \in hits : \A h \in hits : h <= i

\* new Map(pairs).get(form): the last option that declares the form, as its
\* index in settings.options; 0 stands for undefined.
Lookup(options, f, form) ==
    LET hits == {i \in 1..Len(options) :
                    \E j \in 1..Len(options[i][f]) : options[i][f][j] = form}
    IN  IF hits = {} THEN 0 ELSE CHOOSE i \in hits : \A h \in hits : h <= i

shortOptions(S, form) == Lookup(S.options, "short", form)
longOptions(S, form)  == Lookup(S.options, "long", form)

-----------------------------------------------------------------------------
(* Token scanner: _parse1, a generator *)

NoError == [kind |-> "none"]
Error(kind, subject) == [kind |-> kind, subject |-> subject]

\* Where _parse1 stands. "loop": at the head of the token loop (not started,
\* or the body of a token has run to its end); suspended at a yield:
\* "awaited" (line 235), "long" (270), "short" (302), "inline" (305),
\* "positional" (324), with the i and j of the bundle loops where it is inside
\* them; "thrown": it has thrown; "returned": the token loop has ended.
At(place, i, j) == [at |-> place, i |-> i, j |-> j]
AtLoop == At("loop", 0, 0)

\* What one run inside the body of the token loop comes to: the locals, the
\* place where the run stops, the result yielded there, the error thrown.
Step(st, g, yields, err) ==
    [sc |-> st, gen |-> g, yields |-> yields, error |-> err]

\* let argIndex = 0, endOptions = false, position = 0,
\* resultAwaitingArgument = null
ScannerInit ==
    [argIndex |-> 0, endOptions |-> FALSE, position |-> 0, awaiting |-> <<>>]

\* Finish processing a parsed option that is waiting for an argument: the
\* result is yielded while resultAwaitingArgument still refers to it.
AwaitingStep(arg, st, S) ==
    LET r == st.awaiting[1]
        option == S.options[r.parameter.option]
        filled == IF ~option.optional \/ ~StartsWithDash(arg)
                  THEN [r EXCEPT !.parameter.value = arg]
                  ELSE r
    IN  Step([st EXCEPT !.awaiting = <<filled>>], At("awaited", 0, 0),
             <<filled>>, NoError)

\* Mutant: resultAwaitingArgument is not set back to null.
AfterAwaitedKept(st) == st

\* resultAwaitingArgument = null, when _parse1 is resumed after line 235.
AfterAwaited(st) == [st EXCEPT !.awaiting = <<>>]

\* Mutant: the end of the options is met but not recorded.
SetEndOptionsSkipped(st) == st

\* endOptions = true
SetEndOptions(st) == [st EXCEPT !.endOptions = TRUE]

\* Mutant: a missing value is not checked.
LongValueErrorNoMissing(option, longOption, value) ==
    IF JsTruthy(value) /\ ~JsTruthy(Get(option, "argument"))
    THEN Error("doesn't take an argument", <<"-", "-">> \o longOption)
    ELSE NoError

\* Mutant: a value that is not allowed is not checked.
LongValueErrorNoExcess(option, longOption, value) ==
    IF ~JsTruthy(value) /\ JsTruthy(Get(option, "argument")) /\ ~option.optional
    THEN Error("requires an argument", <<"-", "-">> \o longOption)
    ELSE NoError

\* Validate the value of the long option.
LongValueError(option, longOption, value) ==
    IF JsTruthy(value)
    THEN IF ~JsTruthy(Get(option, "argument"))
         THEN Error("doesn't take an argument", <<"-", "-">> \o longOption)
         ELSE NoError
    ELSE IF JsTruthy(Get(option, "argument")) /\ ~option.optional
         THEN Error("requires an argument", <<"-", "-">> \o longOption)
         ELSE NoError

\* Mutant: a long option that takes an argument and has no inline value
\* waits for the next token, as a short option does.
LongOptionAwaits(arg, st, S) ==
    LET eq == IndexOf(arg, "=", 2)
        i == IF eq < 0 THEN Len(arg) ELSE eq
        longOption == Substring(arg, 2, i)
        value == IF i < Len(arg) THEN SubstringFrom(arg, i + 1) ELSE Undefined
        option == longOptions(S, longOption)
        r == [parameter |-> [option |-> option, value |-> value],
              index |-> st.argIndex]
    IN  IF option = 0
        THEN Step(st, At("thrown", 0, 0), <<>>,
                  Error("unrecognized", <<"-", "-">> \o longOption))
        ELSE IF JsTruthy(value) /\ ~JsTruthy(Get(S.options[option], "argument"))
        THEN Step(st, At("thrown", 0, 0), <<>>,
                  Error("doesn't take an argument", <<"-", "-">> \o longOption))
        ELSE IF ~JsTruthy(value) /\ JsTruthy(Get(S.options[option], "argument"))
        THEN Step([st EXCEPT !.awaiting = <<r>>], AtLoop, <<>>, NoError)
        ELSE Step(st, At("long", 0, 0), <<r>>, NoError)

\* A token that starts with '--' and is longer than that, up to the throw or
\* to the yield of line 270.
LongOption(arg, st, S) ==
    LET eq == IndexOf(arg, "=", 2)
        i == IF eq < 0 THEN Len(arg) ELSE eq
        longOption == Substring(arg, 2, i)
        value == IF i < Len(arg) THEN SubstringFrom(arg, i + 1) ELSE Undefined
        option == longOptions(S, longOption)
    IN  IF option = 0
        THEN Step(st, At("thrown", 0, 0), <<>>,
                  Error("unrecognized", <<"-", "-">> \o longOption))
        ELSE IF LongValueError(S.options[option], longOption, value) # NoError
        THEN Step(st, At("thrown", 0, 0), <<>>,
                  LongValueError(S.options[option], longOption, value))
        ELSE Step(st, At("long", 0, 0),
                  << [parameter |-> [option |-> option, value |-> value],
                      index |-> st.argIndex] >>,
                  NoError)

\* Mutant: the inner loop over j runs upwards and stops at the shortest match.
ShortestMatch(arg, i, S) ==
    LET ends == {j \in (i + 1)..Len(arg) : shortOptions(S, Substring(arg, i, j)) # 0}
    IN  IF ends = {} THEN 0 ELSE CHOOSE j \in ends : \A e \in ends : j <= e

\* The inner loop over j: the end of the longest registered short form that
\* starts at offset i, or 0 when no substring that starts at i is registered.
LongestMatch(arg, i, S) ==
    LET ends == {j \in (i + 1)..Len(arg) : shortOptions(S, Substring(arg, i, j)) # 0}
    IN  IF ends = {} THEN 0 ELSE CHOOSE j \in ends : \A e \in ends : e <= j

\* Mutant: subIndex is the offset in the token, the leading `-` counted.
ShortBundleFromDash(arg, i, st, S) ==
    IF i >= Len(arg) THEN Step(st, AtLoop, <<>>, NoError)
    ELSE
    LET j == LongestMatch(arg, i, S)
        option == shortOptions(S, Substring(arg, i, j))
        r == [parameter |-> [option |-> option, value |-> Undefined],
              index |-> st.argIndex, subIndex |-> i, subLength |-> j - i]
    IN  IF j = 0
        THEN Step(st, At("thrown", i, 0), <<>>,
                  Error("unrecognized", <<"-">> \o Substring(arg, i, i + 1)))
        ELSE IF ~JsTruthy(Get(S.options[option], "argument"))
        THEN Step(st, At("short", i, j), <<r>>, NoError)
        ELSE IF j < Len(arg)
        THEN Step(st, At("inline", i, j),
                  << [r EXCEPT !.parameter.value = SubstringFrom(arg, j)] >>,
                  NoError)
        ELSE Step([st EXCEPT !.awaiting = <<r>>], AtLoop, <<>>, NoError)

\* The outer loop over i of a sequence of one or more short options, entered
\* with i: up to the throw, to the yield of line 302 or 305, or, with the
\* result left in resultAwaitingArgument or nothing left of the token, to the
\* end of the body.
ShortBundle(arg, i, st, S) ==
    IF i >= Len(arg) THEN Step(st, AtLoop, <<>>, NoError)
    ELSE
    LET j == LongestMatch(arg, i, S)
        option == shortOptions(S, Substring(arg, i, j))
        r == [parameter |-> [option |-> option, value |-> Undefined],
              index |-> st.argIndex, subIndex |-> i - 1, subLength |-> j - i]
    IN  IF j = 0
        THEN Step(st, At("thrown", i, 0), <<>>,
                  Error("unrecognized", <<"-">> \o Substring(arg, i, i + 1)))
        ELSE IF ~JsTruthy(Get(S.options[option], "argument"))
        THEN Step(st, At("short", i, j), <<r>>, NoError)
        ELSE IF j < Len(arg)
        THEN Step(st, At("inline", i, j),
                  << [r EXCEPT !.parameter.value = SubstringFrom(arg, j)] >>,
                  NoError)
        ELSE Step([st EXCEPT !.awaiting = <<r>>], AtLoop, <<>>, NoError)

\* Mutant: the position is not counted up.
PositionalUncounted(arg, st) ==
    Step(st, At("positional", 0, 0),
         << [parameter |-> [position |-> st.position, value |-> arg],
             index |-> st.argIndex] >>,
         NoError)

\* Generate the positional parameter: position++ runs before the yield.
Positional(arg, st) ==
    Step([st EXCEPT !.position = @ + 1], At("positional", 0, 0),
         << [parameter |-> [position |-> st.position, value |-> arg],
             index |-> st.argIndex] >>,
         NoError)

\* ++argIndex, when _parse1 is resumed after line 324.
AfterPositional(st) == [st EXCEPT !.argIndex = @ + 1]

\* The body of `for (let arg of args)` from its top, up to its first yield or
\* throw, or to its end.
TokenStep(arg, st, S) ==
    IF ~st.endOptions /\ st.awaiting # <<>> THEN AwaitingStep(arg, st, S)
    ELSE IF ~st.endOptions /\ StartsWithDash(arg) /\ Len(arg) > 1
    THEN IF arg[2] = "-"
         THEN IF Len(arg) = 2
              THEN Step(SetEndOptions(st), AtLoop, <<>>, NoError)
              ELSE LongOption(arg, st, S)
         ELSE ShortBundle(arg, 1, st, S)
    ELSE Positional(arg, st)

\* _parse1 is resumed at the yield g of the body of token arg: the rest of the
\* body, up to its next yield or throw, or to its end. After line 302 the
\* outer loop goes on from i = j; after line 305 j = arg.length ends it.
Resume(arg, st, g, S) ==
    IF g.at = "awaited" THEN Step(AfterAwaited(st), AtLoop, <<>>, NoError)
    ELSE IF g.at = "short" THEN ShortBundle(arg, g.j, st, S)
    ELSE IF g.at = "positional"
    THEN Step(AfterPositional(st), AtLoop, <<>>, NoError)
    ELSE Step(st, AtLoop, <<>>, NoError)

\* One call of next() on _parse1, which has taken the tokens before a[i] and
\* stands at g with the locals st: it runs to its next yield or throw, or
\* returns when the tokens are used up.
RECURSIVE NextYield(_, _, _, _, _)
NextYield(i, st, g, a, S) ==
    IF g.at = "loop" /\ i > Len(a)
    THEN [idx |-> i, sc |-> st, gen |-> At("returned", 0, 0), yields |-> <<>>,
          error |-> NoError]
    ELSE LET t == IF g.at = "loop" THEN TokenStep(a[i], st, S)
                  ELSE Resume(a[i - 1], st, g, S)
             n == IF g.at = "loop" THEN i + 1 ELSE i
         IN  IF t.gen.at = "loop" THEN NextYield(n, t.sc, t.gen, a, S)
             ELSE [idx |-> n, sc |-> t.sc, gen |-> t.gen, yields |-> t.yields,
                   error |-> t.error]

-----------------------------------------------------------------------------
(* Result aggregation: the second half of getopt *)

\* A value held by a parsed parameter: a string or undefined as emitted, or
\* the array that merging turns it into.
Scalar(v) == [isArray |-> FALSE, items |-> <<v>>]

\* An item of an array that is itself an array: the value of sequence[p], by
\* reference (a tuple that differs from every string and from undefined).
ArrayOf(p) == <<"array", ToString(p)>>

\* The keys that `results.options`, a plain object, inherits from
\* Object.prototype: `results.options[key]` is not undefined for them.
kProto == <<"_", "_", "p", "r", "o", "t", "o", "_", "_">>
kConstructor == <<"c", "o", "n", "s", "t", "r", "u", "c", "t", "o", "r">>
kHasOwnProperty == <<"h", "a", "s", "O", "w", "n", "P", "r", "o", "p", "e", "r", "t", "y">>
kIsPrototypeOf == <<"i", "s", "P", "r", "o", "t", "o", "t", "y", "p", "e", "O", "f">>
kPropertyIsEnumerable == <<"p", "r", "o", "p", "e", "r", "t", "y", "I", "s", "E", "n", "u", "m", "e", "r", "a", "b", "l", "e">>
kToLocaleString == <<"t", "o", "L", "o", "c", "a", "l", "e", "S", "t", "r", "i", "n", "g">>
kToString == <<"t", "o", "S", "t", "r", "i", "n", "g">>
kValueOf == <<"v", "a", "l", "u", "e", "O", "f">>
kDefineGetter == <<"_", "_", "d", "e", "f", "i", "n", "e", "G", "e", "t", "t", "e", "r", "_", "_">>
kDefineSetter == <<"_", "_", "d", "e", "f", "i", "n", "e", "S", "e", "t", "t", "e", "r", "_", "_">>
kLookupGetter == <<"_", "_", "l", "o", "o", "k", "u", "p", "G", "e", "t", "t", "e", "r", "_", "_">>
kLookupSetter == <<"_", "_", "l", "o", "o", "k", "u", "p", "S", "e", "t", "t", "e", "r", "_", "_">>
kValue == <<"v", "a", "l", "u", "e">>

ObjectPrototypeKeys ==
    {kProto, kConstructor, kHasOwnProperty, kIsPrototypeOf,
     kPropertyIsEnumerable, kToLocaleString, kToString, kValueOf,
     kDefineGetter, kDefineSetter, kLookupGetter, kLookupSetter}

\* The `value` properties that calls have written to the objects reached
\* through Object.prototype, by the key that reaches the object: kProto is
\* Object.prototype itself, kConstructor is Object, the others are the
\* functions of Object.prototype. None is written when the program starts.
NoInherited == <<>>

\* results.options[key] !== undefined although results.options has no such
\* key: the key is inherited, as is `value` once Object.prototype.value is
\* written.
InheritsKey(key, G) ==
    key \in ObjectPrototypeKeys \/ (key = kValue /\ kProto \in DOMAIN G)

\* The object whose `value` the merge branch reads and pushes to, for an
\* inherited key: the object's own value; else the array that it inherits
\* from Object.prototype (for the key `value` the object is that array, and
\* its value is again that array); else a value of its own is created.
ValueHolder(key, G) ==
    IF key = kValue THEN kProto
    ELSE IF key \in DOMAIN G THEN key
    ELSE IF kProto \in DOMAIN G THEN kProto
    ELSE key

\* if (!Array.isArray(option.value)) option.value = [option.value]
\* option.value.push(v), for the object that an inherited key reaches.
PushInherited(G, key, v) ==
    LET h == ValueHolder(key, G)
    IN  IF h \in DOMAIN G THEN [G EXCEPT ![h] = Append(@, v)]
        ELSE (h :> <<Undefined, v>>) @@ G

\* parameter.value as it is pushed: a string or undefined, or the array that
\* the value of the parameter has become.
PushedValue(results, p) ==
    IF results.sequence[p].value.isArray THEN ArrayOf(p)
    ELSE results.sequence[p].value.items[1]

\* The loop over the keys of one option parameter. st holds the results and
\* the values written through Object.prototype; sequence holds the parameter
\* objects, options maps a key to the index of the object it refers to.
RECURSIVE IndexKeys(_, _, _, _)
IndexKeys(st, p, keys, k) ==
    IF k > Len(keys) THEN st
    ELSE IF keys[k] \in DOMAIN st.results.options
    THEN LET o == st.results.options[keys[k]]
             wrapped == [st.results EXCEPT !.sequence[o].value.isArray = TRUE]
         IN  IndexKeys([st EXCEPT !.results =
                            [wrapped EXCEPT !.sequence[o].value.items =
                                Append(@, PushedValue(wrapped, p))]],
                       p, keys, k + 1)
    ELSE IF InheritsKey(keys[k], st.inherited)
    THEN IndexKeys([st EXCEPT !.inherited =
                        PushInherited(@, keys[k], PushedValue(st.results, p))],
                   p, keys, k + 1)
    ELSE IndexKeys([st EXCEPT !.results.options = (keys[k] :> p) @@ @],
                   p, keys, k + 1)

\* Mutant: a positional parameter is put in front of the others (unshift).
RECURSIVE IndexParametersUnshift(_, _, _)
IndexParametersUnshift(st, p, S) ==
    IF p > Len(st.results.sequence) THEN st
    ELSE IF "option" \in DOMAIN st.results.sequence[p]
    THEN LET option == S.options[st.results.sequence[p].option]
         IN  IndexParametersUnshift(
                 IndexKeys(st, p, option.name \o option.short \o option.long, 1),
                 p + 1, S)
    ELSE IndexParametersUnshift(
             [st EXCEPT !.results.parameters = <<p>> \o @], p + 1, S)

\* The loop over the parameters.
RECURSIVE IndexParameters(_, _, _)
IndexParameters(st, p, S) ==
    IF p > Len(st.results.sequence) THEN st
    ELSE IF "option" \in DOMAIN st.results.sequence[p]
    THEN LET option == S.options[st.results.sequence[p].option]
         IN  IndexParameters(
                 IndexKeys(st, p, option.name \o option.short \o option.long, 1),
                 p + 1, S)
    ELSE IndexParameters(
             [st EXCEPT !.results.parameters = Append(@, p)], p + 1, S)

\* Build the results. sequence holds the parameter objects in emission order;
\* options and parameters refer to them by their index in sequence. G holds
\* the values written through Object.prototype before the call.
Aggregate(parameters, S, G) ==
    IndexParameters(
        [results |->
            [sequence |-> [p \in 1..Len(parameters) |->
                              [parameters[p] EXCEPT !.value = Scalar(@)]],
             options |-> <<>>,
             parameters |-> <<>>],
         inherited |-> G],
        1, S)

-----------------------------------------------------------------------------
(* getopt(args, settings), one result pulled out of _parse1 per step *)

NoResult   == [sequence |-> <<>>, options |-> <<>>, parameters |-> <<>>]
\* The settings of a call that is given none: Object.assign leaves the
\* defaults.
NoSettings == _defaultSettings
NoOutcome  == [status |-> "none"]
Outcome    == [status |-> pc, result |-> result, error |-> error]

\* Mutant: the mapped function executes the callback of the settings (as an
\* earlier version of getopt did) instead of the callback of the option.
OnResultOfSettings(r, a, S) ==
    IF "callback" \in DOMAIN S
    THEN << [fn |-> "settings.callback", results |-> r, args |-> a,
             settings |-> S] >>
    ELSE <<>>

\* The function that Array.from maps over the results: execute the callback
\* that is defined for the option.
OnResult(r, a, S) ==
    IF "option" \in DOMAIN r.parameter
       /\ "callback" \in DOMAIN S.options[r.parameter.option]
    THEN << [fn |-> "option.callback", option |-> r.parameter.option,
             result |-> r, args |-> a, settings |-> S] >>
    ELSE <<>>

\* if (settings.error) settings.error(e)
OnError(e, S) ==
    IF "error" \in DOMAIN S THEN << [fn |-> "settings.error", error |-> e] >>
    ELSE <<>>

\* if (settings.callback) settings.callback(results, args, settings)
OnDone(r, a, S) ==
    IF "callback" \in DOMAIN S
    THEN << [fn |-> "settings.callback", results |-> r, args |-> a,
             settings |-> S] >>
    ELSE <<>>

\* Mutant: what the callback of an option throws is caught and dropped.
CallbackThrowsCaught(r, S) == FALSE

\* The callback that is defined for the option of the result throws.
CallbackThrows(r, S) ==
    /\ "option" \in DOMAIN r.parameter
    /\ "callback" \in DOMAIN S.options[r.parameter.option]
    /\ ~S.options[r.parameter.option].callback

\* settings.error is set and throws; settings.callback is set and throws.
HookThrows(S) == "error" \in DOMAIN S /\ ~S.error
DoneThrows(S) == "callback" \in DOMAIN S /\ ~S.callback

\* What the callback of an option, the error hook and the callback of the
\* settings throw.
Thrown     == Error("callback", <<>>)
HookThrown == Error("settings.error", <<>>)
DoneThrown == Error("settings.callback", <<>>)

\* The catch block: `throw e` is reached when the hook returns; what the hook
\* throws leaves getopt in its place.
Rethrown(e, S) == IF HookThrows(S) THEN HookThrown ELSE e

Init ==
    /\ pc = "idle"
    /\ args = <<>>
    /\ callerSettings = NoSettings
    /\ settings = NoSettings
    /\ sc = [argIndex |-> 0, endOptions |-> FALSE, position |-> 0, awaiting |-> <<>>]
    /\ gen = AtLoop
    /\ idx = 1
    /\ events = <<>>
    /\ trace = <<>>
    /\ result = NoResult
    /\ error = NoError
    /\ prev = NoOutcome
    /\ inherited = NoInherited

\* The start of getopt: requireValid, _normalize (which reads the width of
\* the terminal), and _parse1 created.
Invoke(s, a, p) ==
    /\ callerSettings' = s
    /\ args' = a
    /\ prev' = p
    /\ idx' = 1
    /\ events' = <<>>
    /\ trace' = <<>>
    /\ result' = NoResult
    /\ inherited' = inherited
    /\ sc' = ScannerInit
    /\ gen' = AtLoop
    /\ IF Validate(s) # <<>>
       THEN /\ pc' = "failed"
            /\ error' = Error("ArgumentError", Validate(s)[1])
            /\ settings' = NoSettings
       ELSE /\ pc' = "scan"
            /\ error' = NoError
            /\ \E columns \in stdoutColumns : settings' = Normalize(s, columns)

\* The arrays reached through Object.prototype have room for a further call.
InheritedRoom == \A h \in DOMAIN inherited : Len(inherited[h]) < MaxInherited

\* The settings have an option with a key that results.options inherits, or
\* may come to inherit, from Object.prototype: calls with them read and write
\* what outlives a call.
ReachesPrototype(s) ==
    \E i \in 1..Len(s.options) : \E f \in {"name", "short", "long"} :
        \E j \in 1..Len(AsList(s.options[i], f)) :
            AsList(s.options[i], f)[j] \in ObjectPrototypeKeys \cup {kValue}

\* A call with new tokens and settings: the first call, or a call that
\* follows other calls (those are enumerated with at most one token, and
\* with the settings that reach Object.prototype).
Call ==
    /\ pc \in {"idle", "done", "failed"}
    /\ InheritedRoom
    /\ \E sn \in {x \in Scenarios :
                      \/ pc = "idle"
                      \/ /\ "options" \in DOMAIN x.settings
                         /\ ReachesPrototype(x.settings)} :
       \E a \in ArgsOver(sn.tokens, IF pc = "idle" THEN MaxArgs ELSE 1) :
           Invoke(sn.settings, a, NoOutcome)

\* A second call with the token array and the settings object of the call
\* that has just returned or thrown.
Recall ==
    /\ pc \in {"done", "failed"}
    /\ InheritedRoom
    /\ Invoke(callerSettings, args, Outcome)

\* Array.from pulls the next result out of _parse1 and maps it: the callback
\* of its option is executed. What _parse1 or the callback throws is caught:
\* the error hook is told of it, and getopt throws.
ScanNext ==
    /\ pc = "scan"
    /\ \E n \in {NextYield(idx, sc, gen, args, settings)} :
           /\ n.gen.at # "returned"
           /\ idx' = n.idx
           /\ sc' = n.sc
           /\ gen' = n.gen
           /\ events' = events \o n.yields
           /\ IF n.error # NoError
              THEN /\ pc' = "failed"
                   /\ trace' = trace \o OnError(n.error, settings)
                   /\ error' = Rethrown(n.error, settings)
              ELSE IF CallbackThrows(n.yields[1], settings)
              THEN /\ pc' = "failed"
                   /\ trace' = trace \o OnResult(n.yields[1], args, settings)
                                     \o OnError(Thrown, settings)
                   /\ error' = Rethrown(Thrown, settings)
              ELSE /\ pc' = "scan"
                   /\ trace' = trace \o OnResult(n.yields[1], args, settings)
                   /\ error' = error
    /\ UNCHANGED <<args, callerSettings, settings, result, prev, inherited>>

\* _parse1 returns: build the results, execute the callback of the settings,
\* return. What that callback throws leaves getopt: it is outside the try
\* block, so the error hook is not told, and the results are built by then.
Finish ==
    /\ pc = "scan"
    /\ \E n \in {NextYield(idx, sc, gen, args, settings)} :
       \E st \in {Aggregate([k \in 1..Len(events) |-> events[k].parameter],
                            settings, inherited)} :
           /\ n.gen.at = "returned"
           /\ idx' = n.idx
           /\ sc' = n.sc
           /\ gen' = n.gen
           /\ inherited' = st.inherited
           /\ trace' = trace \o OnDone(st.results, args, settings)
           /\ IF DoneThrows(settings)
              THEN /\ pc' = "failed"
                   /\ error' = DoneThrown
                   /\ result' = NoResult
              ELSE /\ pc' = "done"
                   /\ error' = error
                   /\ result' = st.results
    /\ UNCHANGED <<args, callerSettings, settings, events, prev>>

-----------------------------------------------------------------------------
(* parse(args, settings), one pulled result per step *)

\* The places of the trace where fn was invoked.
Invocations(fn) == {k \in 1..Len(trace) : trace[k].fn = fn}

\* The error that ended the scan of the getopt call: the one that the error
\* hook, the last call of the trace, was told of.
Cause ==
    IF Invocations("settings.error") # {} THEN trace[Len(trace)].error ELSE error

\* What the getopt call that has just ended pulled out of _parse1: the
\* results, and whether _parse1 returned or the scan was ended by an error.
Scanned ==
    [status |-> IF gen.at = "returned" THEN "done" ELSE "failed",
     events |-> events,
     error  |-> IF gen.at = "returned" THEN NoError ELSE Cause]

\* Mutant: the result is yielded without the callback being executed.
OnParse0Skipped(r, a, S) == <<>>

\* The body of the loop of _parse0: execute the callback that is defined for
\* the option.
OnParse0(r, a, S) ==
    IF "option" \in DOMAIN r.parameter
       /\ "callback" \in DOMAIN S.options[r.parameter.option]
    THEN << [fn |-> "option.callback", option |-> r.parameter.option,
             result |-> r, args |-> a, settings |-> S] >>
    ELSE <<>>

\* parse is called with the token array and the settings object of the getopt
\* call that has just ended; a generator function runs nothing until pulled.
Parse ==
    /\ pc \in {"done", "failed"}
    /\ prev = NoOutcome
    /\ pc' = "created"
    /\ prev' = Scanned
    /\ idx' = 1
    /\ events' = <<>>
    /\ trace' = <<>>
    /\ result' = NoResult
    /\ error' = NoError
    /\ settings' = NoSettings
    /\ sc' = ScannerInit
    /\ gen' = AtLoop
    /\ UNCHANGED <<args, callerSettings, inherited>>

\* The caller pulls the next result: the first pull runs requireValid and
\* _normalize, every pull resumes _parse1 up to its next yield or throw, and
\* _parse0 executes the callback of the option before it yields the result.
\* _parse1 stays suspended at its yield until the next pull.
Pull ==
    /\ pc \in {"created", "pull"}
    /\ IF pc = "created" /\ Validate(callerSettings) # <<>>
       THEN /\ pc' = "raised"
            /\ error' = Error("ArgumentError", Validate(callerSettings)[1])
            /\ UNCHANGED <<settings, sc, gen, idx, events, trace>>
       ELSE \E columns \in stdoutColumns :
            \E S \in {IF pc = "created" THEN Normalize(callerSettings, columns)
                       ELSE settings} :
            \E n \in {NextYield(idx, sc, gen, args, S)} :
                /\ settings' = S
                /\ sc' = n.sc
                /\ gen' = n.gen
                /\ idx' = n.idx
                /\ IF n.gen.at = "returned"
                   THEN /\ pc' = "exhausted"
                        /\ UNCHANGED <<events, trace, error>>
                   ELSE IF n.error # NoError
                   THEN /\ pc' = "raised"
                        /\ error' = n.error
                        /\ UNCHANGED <<events, trace>>
                   ELSE IF CallbackThrows(n.yields[1], S)
                   THEN /\ pc' = "raised"
                        /\ error' = Thrown
                        /\ trace' = trace \o OnParse0(n.yields[1], args, S)
                        /\ events' = events
                   ELSE /\ pc' = "pull"
                        /\ events' = Append(events, n.yields[1])
                        /\ trace' = trace \o OnParse0(n.yields[1], args, S)
                        /\ error' = error
    /\ UNCHANGED <<args, callerSettings, result, prev, inherited>>

Next == Call \/ Recall \/ ScanNext \/ Finish \/ Parse \/ Pull

Spec == Init /\ [][Next]_vars

-----------------------------------------------------------------------------
(* Definitions used to state the properties *)

Returned == pc = "done"
Threw    == pc = "failed"

\* The call has ended.
Ended == pc \in {"done", "failed"}

\* The call was ended by what a callback of the caller threw: the callback of
\* an option, or the callback of the settings.
CallbackFailed == Threw /\ Cause.kind \in {"callback", "settings.callback"}

\* A step of the scan of a getopt call: a result is pulled, _parse1 throws,
\* or _parse1 returns and the call ends.
Stepped == pc = "scan" /\ (pc' # pc \/ events' # events)

\* A step of the scan in which Array.from pulls a result out of _parse1.
Pulls == pc = "scan" /\ Len(events') = Len(events) + 1

Last(seq) == seq[Len(seq)]

IsBundle(arg) == Len(arg) > 1 /\ arg[1] = "-" /\ arg[2] # "-"
IsLong(arg)   == Len(arg) > 2 /\ arg[1] = "-" /\ arg[2] = "-"

TakesArgument(option) == JsTruthy(Get(option, "argument"))
RequiresArgument(option) == TakesArgument(option) /\ ~option.optional

\* Every alias key of a normalized option.
Keys(option) ==
    {option.name[k] : k \in 1..Len(option.name)}
    \cup {option.short[k] : k \in 1..Len(option.short)}
    \cup {option.long[k] : k \in 1..Len(option.long)}

\* The value that result.options[key] holds.
OptionValue(key) == result.sequence[result.options[key]].value

\* The values of the occurrences of option o, in emission order.
RECURSIVE ValuesOf(_, _)
ValuesOf(o, k) ==
    IF k > Len(events) THEN <<>>
    ELSE (IF "option" \in DOMAIN events[k].parameter
             /\ events[k].parameter.option = o
          THEN <<events[k].parameter.value>> ELSE <<>>) \o ValuesOf(o, k + 1)

\* The left-to-right longest-match segmentation of a bundle from offset i:
\* the matched forms, the last with the rest of the bundle as its value when
\* it takes an argument; <<"unregistered">> ends it where nothing matches.
RECURSIVE Segments(_, _, _)
Segments(arg, i, S) ==
    IF i >= Len(arg) THEN <<>>
    ELSE LET j == LongestMatch(arg, i, S)
             o == shortOptions(S, Substring(arg, i, j))
         IN  IF j = 0 THEN << [form |-> <<"unregistered">>] >>
             ELSE IF TakesArgument(S.options[o])
             THEN << [form |-> Substring(arg, i, j), rest |-> SubstringFrom(arg, j)] >>
             ELSE << [form |-> Substring(arg, i, j)] >> \o Segments(arg, j, S)

\* The scan stands where the body of the token before args[idx] has nothing
\* left to yield or to throw, before the end of the options: the token
\* args[idx] is met next, in the scanning state, with no result awaiting its
\* argument (line 236 runs first where one was yielded).
Fresh ==
    /\ pc = "scan"
    /\ idx <= Len(args)
    /\ ~sc.endOptions
    /\ \/ gen.at \in {"loop", "awaited", "long", "inline", "positional"}
       \/ gen.at = "short" /\ gen.j >= Len(args[idx - 1])

\* The scan is suspended inside a bundle, of which characters are left.
MidBundle ==
    pc = "scan" /\ gen.at = "short" /\ gen.j < Len(args[idx - 1])

-----------------------------------------------------------------------------
(* Properties *)

\* C1: a single bundle token that segments, left to right by longest match,
\* into registered short forms parses successfully; result.options has a key
\* for every form matched, a form that takes an argument and is matched
\* before the end of the bundle has the rest of the bundle as its value, and
\* there are no positional parameters. (Callbacks are taken to return.)
C1_BundleKeys ==
    (Ended /\ error.kind # "ArgumentError" /\ ~CallbackFailed
     /\ Len(args) = 1 /\ IsBundle(args[1])
     /\ \A k \in 1..Len(Segments(args[1], 1, settings)) :
            Segments(args[1], 1, settings)[k].form # <<"unregistered">>)
    => /\ Returned
       /\ result.parameters = <<>>
       /\ \A k \in 1..Len(Segments(args[1], 1, settings)) :
              LET seg == Segments(args[1], 1, settings)[k]
              IN  /\ seg.form \in DOMAIN result.options
                  /\ ("rest" \in DOMAIN seg /\ seg.rest # <<>>)
                         => OptionValue(seg.form) = Scalar(seg.rest)

\* C2: an option matched n >= 2 times has, under every alias key, the list of
\* the n values of its occurrences in emission order; matched once, it has
\* the single value.
C2_OneElementPerOccurrence ==
    Returned =>
        \A o \in 1..Len(settings.options) :
            LET vals == ValuesOf(o, 1)
            IN  Len(vals) >= 1 =>
                    \A key \in Keys(settings.options[o]) :
                        /\ key \in DOMAIN result.options
                        /\ OptionValue(key).items = vals
                        /\ OptionValue(key).isArray = (Len(vals) >= 2)

\* C3: when the tokens end while a short option that requires an argument is
\* still awaiting it, the call fails with a missing-argument error.
C3_MissingArgumentAtEnd ==
    (Ended /\ gen.at = "returned" /\ sc.awaiting # <<>>
     /\ RequiresArgument(settings.options[sc.awaiting[1].parameter.option]))
    => (Threw /\ Cause.kind = "requires an argument")

\* C4: the token `--`, met while scanning and not awaiting an argument, emits
\* nothing and ends option recognition; from then on every token, whatever
\* its shape, is emitted as a positional holding the token verbatim, and no
\* token raises an error.
C4_EndOfOptions ==
    [][/\ (Fresh /\ args[idx] = tDashDash /\ Stepped)
              => /\ sc'.endOptions
                 /\ IF idx = Len(args)
                    THEN events' = events /\ gen'.at = "returned"
                    ELSE /\ pc' = "scan"
                         /\ idx' = idx + 2
                         /\ events' = Append(events, Last(events'))
                         /\ "position" \in DOMAIN Last(events').parameter
                         /\ Last(events').parameter.value = args[idx + 1]
       /\ (pc = "scan" /\ sc.endOptions /\ idx <= Len(args) /\ Stepped)
              => /\ pc' = "scan"
                 /\ idx' = idx + 1
                 /\ sc'.endOptions
                 /\ events' = Append(events, Last(events'))
                 /\ "position" \in DOMAIN Last(events').parameter
                 /\ Last(events').parameter.value = args[idx]]_vars

C4_Witness ==
    /\ pc = "scan"
    /\ sc.endOptions
    /\ events # <<>>
    /\ "position" \in DOMAIN Last(events).parameter
    /\ IsBundle(Last(events).parameter.value)
    /\ \E k \in 1..Len(args) : k < idx - 1 /\ args[k] = tDashDash

\* C5: when no token starts with `-`, whatever options are registered, the
\* call succeeds, parameters holds one entry per token in order, entry i with
\* the value of token i and position i, and options is empty. (Callbacks are
\* taken to return.)
C5_AllPositional ==
    (Ended /\ error.kind # "ArgumentError" /\ ~CallbackFailed
     /\ \A i \in 1..Len(args) : ~StartsWithDash(args[i]))
    => /\ Returned
       /\ DOMAIN result.options = {}
       /\ Len(result.parameters) = Len(args)
       /\ \A i \in 1..Len(args) :
              result.sequence[result.parameters[i]] =
                  [position |-> i - 1, value |-> Scalar(args[i])]

C5_Witness ==
    /\ Returned
    /\ Len(args) >= 2
    /\ args[2] = tEmpty
    /\ settings.options # <<>>
    /\ \A i \in 1..Len(args) : ~StartsWithDash(args[i])
    /\ Len(result.parameters) = Len(args)

\* C6: a call repeated with the same token array and settings object ends as
\* the first one did: both return structurally identical results, or both
\* throw an error of the same kind.
C6_RepeatedCall ==
    (Ended /\ prev # NoOutcome)
    => /\ pc = prev.status
       /\ Returned => result = prev.result
       /\ Threw => error = prev.error

\* The options that declare a long form.
LongSpecs(key) ==
    {o \in 1..Len(settings.options) :
        \E k \in 1..Len(settings.options[o].long) : settings.options[o].long[k] = key}

\* The offset of the first `=` at or after offset 2 of a token, 0 if none.
FirstEquals(arg) ==
    IF \E i \in 3..Len(arg) : arg[i] = "="
    THEN (CHOOSE i \in 3..Len(arg) :
              arg[i] = "=" /\ \A h \in 3..(i - 1) : arg[h] # "=") - 1
    ELSE 0

\* The scan is about to meet a long-option token in its scanning state:
\* before `--` and not awaiting an argument.
ScansLong == Fresh /\ IsLong(args[idx])

\* C7 as stated: for a token `--key=value` met while scanning, the key is the
\* text between offset 2 and the first `=` and the value is everything after
\* that first `=`, whatever it is; when the key is a registered long form that
\* takes an argument, exactly one occurrence with that option and that value
\* is emitted.
C7_AnyLongValueSplit ==
    [][(/\ ScansLong
        /\ FirstEquals(args[idx]) > 0
        /\ Stepped
        /\ \E o \in LongSpecs(Substring(args[idx], 2, FirstEquals(args[idx]))) :
               TakesArgument(settings.options[o]))
       => LET eq == FirstEquals(args[idx])
              value == SubSeq(args[idx], eq + 2, Len(args[idx]))
          IN  /\ gen'.at = "long"
              /\ idx' = idx + 1
              /\ events' = Append(events, Last(events'))
              /\ LongSpecs(Substring(args[idx], 2, eq))
                     = {Last(events').parameter.option}
              /\ Last(events').parameter.value = value]_vars

\* C7 amended: for a token `--key=value` met while scanning, the key is the
\* text between offset 2 and the first `=` and the value is everything after
\* that first `=`; when the key is a registered long form that takes an
\* argument and the value is not empty, exactly one occurrence with that
\* option and that value is emitted. An empty value counts as no value: if
\* the argument is required, the token fails with a missing-argument error
\* and nothing is emitted for it; if it is optional, the one occurrence is
\* emitted with the empty string as its value.
C7_LongValueSplit ==
    [][(/\ ScansLong
        /\ FirstEquals(args[idx]) > 0
        /\ Stepped
        /\ \E o \in LongSpecs(Substring(args[idx], 2, FirstEquals(args[idx]))) :
               TakesArgument(settings.options[o]))
       => LET eq == FirstEquals(args[idx])
              value == SubSeq(args[idx], eq + 2, Len(args[idx]))
              required == \E o \in LongSpecs(Substring(args[idx], 2, eq)) :
                              RequiresArgument(settings.options[o])
          IN  /\ idx' = idx + 1
              /\ IF value = <<>> /\ required
                 THEN /\ gen'.at = "thrown"
                      /\ Cause'.kind = "requires an argument"
                      /\ events' = events
                 ELSE /\ gen'.at = "long"
                      /\ events' = Append(events, Last(events'))
                      /\ LongSpecs(Substring(args[idx], 2, eq))
                             = {Last(events').parameter.option}
                      /\ Last(events').parameter.value = value]_vars

C7_Witness ==
    /\ pc = "scan"
    /\ idx > 1
    /\ args[idx - 1] = tOutABC
    /\ events # <<>>
    /\ Last(events).parameter = [option |-> 2, value |-> <<"b", "=", "c">>]

\* C8: a long-option token without inline value whose option requires an
\* argument fails with a missing-argument error at that token; no occurrence
\* is emitted for it and the next token is not taken.
C8_LongMissingArgument ==
    [][(/\ ScansLong
        /\ FirstEquals(args[idx]) = 0
        /\ Stepped
        /\ \E o \in LongSpecs(SubSeq(args[idx], 3, Len(args[idx]))) :
               RequiresArgument(settings.options[o]))
       => /\ pc' = "failed"
          /\ gen'.at = "thrown"
          /\ Cause'.kind = "requires an argument"
          /\ events' = events
          /\ idx' = idx + 1]_vars

C8_Witness ==
    /\ Threw
    /\ error.kind = "requires an argument"
    /\ idx > 1
    /\ idx <= Len(args)
    /\ args[idx - 1] = tOut
    /\ args[idx] = tX

\* C9 as stated: a long-option token with an `=` after the key, whatever
\* follows it, whose option takes no argument fails with an
\* argument-not-allowed error and emits no occurrence.
C9_AnyInlineValueNotAllowed ==
    [][(/\ ScansLong
        /\ FirstEquals(args[idx]) > 0
        /\ Stepped
        /\ \E o \in LongSpecs(Substring(args[idx], 2, FirstEquals(args[idx]))) :
               ~TakesArgument(settings.options[o]))
       => /\ pc' = "failed"
          /\ Cause'.kind = "doesn't take an argument"
          /\ events' = events]_vars

\* C9 amended: a long-option token with a non-empty inline value whose option
\* takes no argument fails with an argument-not-allowed error and emits no
\* occurrence.
C9_InlineValueNotAllowed ==
    [][(/\ ScansLong
        /\ FirstEquals(args[idx]) > 0
        /\ FirstEquals(args[idx]) + 1 < Len(args[idx])
        /\ Stepped
        /\ \E o \in LongSpecs(Substring(args[idx], 2, FirstEquals(args[idx]))) :
               ~TakesArgument(settings.options[o]))
       => /\ pc' = "failed"
          /\ gen'.at = "thrown"
          /\ Cause'.kind = "doesn't take an argument"
          /\ events' = events]_vars

C9_Witness ==
    /\ Threw
    /\ error.kind = "doesn't take an argument"
    /\ idx > 2
    /\ args[idx - 1] = tQuietX

\* The option callbacks due for the occurrences emitted so far, from the k-th.
RECURSIVE ExpectedCalls(_)
ExpectedCalls(k) ==
    IF k > Len(events) THEN <<>>
    ELSE (IF "option" \in DOMAIN events[k].parameter
             /\ "callback" \in DOMAIN settings.options[events[k].parameter.option]
          THEN << [fn |-> "option.callback",
                   option |-> events[k].parameter.option,
                   result |-> events[k], args |-> args, settings |-> settings] >>
          ELSE <<>>) \o ExpectedCalls(k + 1)

\* C10: the callbacks invoked are one call of the option's callback per option
\* occurrence whose option declares one, in emission order, with (occurrence,
\* tokens, settings), made before anything is aggregated; then, once, the
\* callback of the settings, if present, with the final result.
C10_CallbackTrace ==
    /\ pc = "scan" => (trace = ExpectedCalls(1) /\ result = NoResult)
    /\ Returned =>
           trace = ExpectedCalls(1) \o
                   (IF "callback" \in DOMAIN settings
                    THEN << [fn |-> "settings.callback", results |-> result,
                             args |-> args, settings |-> settings] >>
                    ELSE <<>>)

C10_Witness ==
    /\ Returned
    /\ Len(trace) >= 3
    /\ trace[1].fn = "option.callback"
    /\ trace[2].fn = "option.callback"
    /\ Last(trace).fn = "settings.callback"
    /\ \E k \in 1..Len(events) :
           /\ "option" \in DOMAIN events[k].parameter
           /\ "callback" \notin DOMAIN settings.options[events[k].parameter.option]
    /\ result.parameters # <<>>

\* The errors that _parse1 throws.
ScannerErrors == {"unrecognized", "doesn't take an argument", "requires an argument"}

\* C11: when the scanner throws during getopt, the call fails and returns no
\* result, the callback of the settings is not invoked, the error hook, when
\* there is one, is invoked exactly once, last, with the error of the scanner,
\* that same error is what getopt throws, whatever the hook does, and no later
\* token is scanned: the only step out of the failed call is a new call.
C11_ScannerError ==
    [][/\ (pc = "scan" /\ gen'.at = "thrown") =>
           /\ Threw'
           /\ result' = NoResult
           /\ Invocations("settings.callback")' = {}
           /\ IF "error" \in DOMAIN settings'
              THEN /\ Invocations("settings.error")' = {Len(trace')}
                   /\ Last(trace').error.kind \in ScannerErrors
                   /\ error' = Last(trace').error
              ELSE /\ Invocations("settings.error")' = {}
                   /\ error'.kind \in ScannerErrors
       /\ (Threw /\ gen.at = "thrown") =>
           /\ pc' \in {"scan", "failed", "created"}
           /\ idx' = 1
           /\ events' = <<>>]_vars

\* The forms that a caller's option declares in field f.
Declared(option, f) ==
    {AsList(option, f)[j] : j \in 1..Len(AsList(option, f))}

\* The options of a caller's settings.
OptionsOf(s) == IF "options" \in DOMAIN s THEN s.options ELSE <<>>

\* Two options of the settings declare the same short or the same long form.
DeclaresTwice(s) ==
    \E i, j \in 1..Len(OptionsOf(s)) : \E f \in {"short", "long"} :
        /\ i < j
        /\ Declared(OptionsOf(s)[i], f) \cap Declared(OptionsOf(s)[j], f) # {}

\* C12: a call whose settings declare the same short or long form in two
\* options fails with a configuration error before any token is scanned.
C12_DuplicateForms ==
    (pc \in {"scan", "done", "failed"} /\ DeclaresTwice(callerSettings))
    => /\ Threw
       /\ error.kind = "ArgumentError"
       /\ events = <<>>
       /\ idx = 1

\* The option has no short and no long form: each is absent or an empty list.
LacksForms(option) ==
    \A f \in {"short", "long"} : f \notin DOMAIN option \/ option[f] = Arr(<<>>)

\* C13: a call whose settings hold an option with neither a short nor a long
\* form throws an ArgumentError before any token is scanned and before any
\* callback is invoked, whatever the tokens are.
C13_NoForms ==
    (pc \notin {"idle", "created"}
     /\ \E i \in 1..Len(OptionsOf(callerSettings)) :
            LacksForms(OptionsOf(callerSettings)[i]))
    => /\ pc \in {"failed", "raised"}
       /\ error.kind = "ArgumentError"
       /\ idx = 1
       /\ gen = AtLoop
       /\ events = <<>>
       /\ trace = <<>>
       /\ result = NoResult

\* getopt has thrown for an option whose forms are empty lists, called with
\* no token at all.
C13_Witness ==
    /\ Threw
    /\ args = <<>>
    /\ callerSettings = EmptyFormsSettings
    /\ error.kind = "ArgumentError"

\* Array.from over _parse1 as a function of the tokens and the settings: the
\* results pulled and how the scan ends.
RECURSIVE ScanAll(_, _, _, _, _, _)
ScanAll(a, i, st, g, S, yields) ==
    LET n == NextYield(i, st, g, a, S)
    IN  IF n.gen.at = "returned"
        THEN [status |-> "done", events |-> yields, error |-> NoError]
        ELSE IF n.error # NoError
        THEN [status |-> "failed", events |-> yields, error |-> n.error]
        ELSE IF CallbackThrows(n.yields[1], S)
        THEN [status |-> "failed", events |-> yields \o n.yields,
              error |-> Thrown]
        ELSE ScanAll(a, n.idx, n.sc, n.gen, S, yields \o n.yields)

sNone     == <<"n","o","n","e">>
sRequired == <<"r","e","q","u","i","r","e","d">>
sOptional == <<"o","p","t","i","o","n","a","l">>

\* The settings with the argument of every option replaced by m[argument].
WithArguments(S, m(_)) ==
    [S EXCEPT !.options =
        [i \in 1..Len(S.options) |->
            IF "argument" \in DOMAIN S.options[i]
            THEN Assign(S.options[i], m(S.options[i].argument))
            ELSE S.options[i]]]

\* The three modes in terms of a boolean argument and the optional flag.
ThreeWay(v) ==
    IF v = sNone THEN [argument |-> JsFalse]
    ELSE IF v = sRequired THEN [argument |-> JsTrue]
    ELSE IF v = sOptional THEN [argument |-> JsTrue, optional |-> TRUE]
    ELSE [argument |-> v]

\* Every non-empty string as the boolean true.
NamedIsTrue(v) ==
    IF v \notin {Undefined, JsFalse, <<>>} THEN [argument |-> JsTrue]
    ELSE [argument |-> v]

\* C14 (as claimed): `argument` given as 'none', 'required' or 'optional' is a
\* three-way mode: the scan ends as it does for the settings in which 'none'
\* is false, 'required' is true and 'optional' is true with the argument
\* optional.
C14_ThreeWayMode ==
    (Ended /\ error.kind # "ArgumentError")
    => Scanned = ScanAll(args, 1, ScannerInit, AtLoop,
                         WithArguments(settings, ThreeWay), <<>>)

\* C14 (amended): the scanner only tests whether `argument` is truthy: the
\* scan ends as it does for the settings in which every non-empty string,
\* 'none', 'required' and 'optional' included, is true; whether the argument
\* is optional is given by `optional` alone.
C14_ArgumentTruthy ==
    (Ended /\ error.kind # "ArgumentError")
    => Scanned = ScanAll(args, 1, ScannerInit, AtLoop,
                         WithArguments(settings, NamedIsTrue), <<>>)

\* An option with argument 'none' was emitted with the next token as value.
C14_Witness ==
    /\ Returned
    /\ callerSettings = ModeSettings
    /\ \E k \in 1..Len(events) :
           /\ "option" \in DOMAIN events[k].parameter
           /\ settings.options[events[k].parameter.option].argument = sNone
           /\ events[k].parameter.value = tX

\* C15: every result that the scan yields carries the 0-based index, in the
\* token array, of the token that produced it: the token being scanned, or
\* the token before it for an option that was awaiting its argument.
C15_TokenIndex ==
    [][Pulls =>
           Last(events').index =
               IF gen'.at = "awaited" THEN idx' - 3 ELSE idx' - 2]_vars

\* The options that have an occurrence among the results yielded.
Matched ==
    {events[k].parameter.option :
        k \in {n \in 1..Len(events) : "option" \in DOMAIN events[n].parameter}}

\* C16: when getopt returns, the keys of result.options are exactly the alias
\* keys (name, short and long) of the options matched at least once, and all
\* the alias keys of one matched option refer to the same occurrence, hence
\* to the same value.
C16_OptionKeys ==
    Returned =>
        /\ DOMAIN result.options = UNION {Keys(settings.options[o]) : o \in Matched}
        /\ \A o \in Matched : \A k1, k2 \in Keys(settings.options[o]) :
               result.options[k1] = result.options[k2]

IsPrefix(p, s) == Len(p) <= Len(s) /\ SubSeq(s, 1, Len(p)) = p

\* C17: the results that parse has yielded so far are, in order, the first
\* results that getopt pulled out of the scan of the same tokens with the same
\* settings, and the callback of every option yielded has been executed, in
\* that order, and nothing else; parse is exhausted exactly after the results
\* of a getopt call whose scan came to its end, and it throws the error that
\* ended the scan of getopt only after every result that preceded the error
\* was yielded (a result whose callback throws is not yielded: its callback
\* is executed first).
C17_LazyParse ==
    pc \in {"pull", "exhausted", "raised"} =>
        /\ IsPrefix(events, prev.events)
        /\ pc # "raised" => trace = ExpectedCalls(1)
        /\ pc = "pull" => events # <<>>
        /\ pc = "exhausted" => (prev.status = "done" /\ events = prev.events)
        /\ pc = "raised" =>
               /\ prev.status = "failed"
               /\ error = prev.error
               /\ IF error.kind = "callback"
                  THEN /\ Len(prev.events) = Len(events) + 1
                       /\ trace = ExpectedCalls(1)
                                   \o OnResult(Last(prev.events), args, settings)
                  ELSE events = prev.events
               /\ error.kind \in ScannerErrors => trace = ExpectedCalls(1)

\* parse has thrown a scanner error after it yielded a result whose option
\* has a callback.
C17_Witness ==
    /\ pc = "raised"
    /\ error.kind \in ScannerErrors
    /\ events # <<>>
    /\ trace # <<>>

\* The short forms of a normalized option.
ShortForms(option) == {option.short[j] : j \in 1..Len(option.short)}

\* Some option of the settings declares the short form.
ShortDeclared(form) ==
    \E o \in 1..Len(settings.options) : form \in ShortForms(settings.options[o])

\* C18: every short option that the scan yields out of a bundle was matched
\* with the longest registered short form that starts at its offset: the
\* form of the occurrence is declared by its option, and no longer substring
\* of the token from the same offset is a registered short form.
C18_LongestMatch ==
    [][(Pulls /\ "subIndex" \in DOMAIN Last(events')) =>
           LET r    == Last(events')
               arg  == IF gen'.at = "awaited" THEN args[idx' - 2]
                       ELSE args[idx' - 1]
               from == r.subIndex + 1
               to   == from + r.subLength
               o    == settings.options[r.parameter.option]
           IN  /\ to <= Len(arg)
               /\ Substring(arg, from, to) \in ShortForms(o)
               /\ \A j \in (to + 1)..Len(arg) :
                      ~ShortDeclared(Substring(arg, from, j))]_vars

\* The bundle -MGM was scanned as MG, although M is registered too, then M.
C18_Witness ==
    /\ pc = "scan"
    /\ idx = 2
    /\ args[1] = tMGM
    /\ Len(events) = 2
    /\ events[1].subLength = 2
    /\ events[2].subLength = 1

\* The short form is declared by an option that takes no argument.
NoArgumentShort(form) ==
    \E o \in 1..Len(settings.options) :
        /\ form \in ShortForms(settings.options[o])
        /\ ~TakesArgument(settings.options[o])

\* The bundle splits from offset i, in at least one way, completely into
\* registered short forms that take no argument.
RECURSIVE Splittable(_, _)
Splittable(arg, i) ==
    \/ i >= Len(arg)
    \/ \E j \in (i + 1)..Len(arg) :
           NoArgumentShort(Substring(arg, i, j)) /\ Splittable(arg, j)

\* The option that a registered short form resolves to: the last that
\* declares it.
Resolved(form) ==
    LET os == {o \in 1..Len(settings.options) : form \in ShortForms(settings.options[o])}
    IN  settings.options[CHOOSE o \in os : \A h \in os : h <= o]

\* The bundle splits from offset i by taking, at every offset reached, the
\* longest registered short form that starts there, up to the end of the
\* bundle or to a form that takes an argument.
RECURSIVE GreedySplit(_, _)
GreedySplit(arg, i) ==
    \/ i >= Len(arg)
    \/ LET ends == {j \in (i + 1)..Len(arg) : ShortDeclared(Substring(arg, i, j))}
           top  == CHOOSE j \in ends : \A e \in ends : e <= j
       IN  /\ ends # {}
           /\ TakesArgument(Resolved(Substring(arg, i, top))) \/ GreedySplit(arg, top)

\* The end of the longest registered short form that starts at offset i of
\* the bundle, or 0 when none starts there.
GreedyEnd(arg, i) ==
    LET ends == {j \in (i + 1)..Len(arg) : ShortDeclared(Substring(arg, i, j))}
    IN  IF ends = {} THEN 0 ELSE CHOOSE j \in ends : \A e \in ends : e <= j

\* The scan is about to match a short form in a bundle: at the start of a
\* bundle token met in the scanning state, or where it is suspended inside
\* one; the bundle, and the offset in it.
ScansBundle == (Fresh /\ IsBundle(args[idx])) \/ MidBundle
BundleToken == IF MidBundle THEN args[idx - 1] ELSE args[idx]
BundleOffset == IF MidBundle THEN gen.j ELSE 1

\* The step ends with an unrecognized-option error of _parse1.
Unrecognized == gen'.at = "thrown" /\ Cause'.kind = "unrecognized"

\* C19 (as claimed): a bundle that splits in at least one way completely into
\* registered short forms that take no argument is scanned, at every offset
\* reached, without an unrecognized-option error.
C19_AnySplit ==
    [][(ScansBundle /\ Stepped /\ Splittable(BundleToken, 1)) =>
           ~Unrecognized]_vars

\* C19 (amended): the scan of a bundle does not backtrack: a bundle whose
\* split by the longest registered short form at every offset reaches its end
\* is scanned without an unrecognized-option error; for any other bundle the
\* scan yields the forms of that split one by one and throws the error at the
\* offset where no registered form starts.
C19_GreedySplit ==
    [][(ScansBundle /\ Stepped) =>
           /\ GreedySplit(BundleToken, 1) => ~Unrecognized
           /\ ~GreedySplit(BundleToken, BundleOffset) =>
                  \/ Unrecognized
                  \/ /\ gen'.at = "short"
                     /\ idx' = (IF MidBundle THEN idx ELSE idx + 1)
                     /\ gen'.i = BundleOffset
                     /\ gen'.j = GreedyEnd(BundleToken, BundleOffset)
                     /\ ~GreedySplit(BundleToken, gen'.j)]_vars

\* The bundle -abc, with a, ab and bc registered, was matched as ab and then
\* failed at c.
C19_Witness ==
    /\ Threw
    /\ error = Error("unrecognized", <<"-", "c">>)
    /\ idx > 1
    /\ args[idx - 1] = tABC
    /\ Len(events) = 1
    /\ events[1].subLength = 2

\* C20: when an option whose argument is optional is awaiting it and the next
\* token looks like an option (it starts with `-` and is longer than one
\* character), the awaiting option is emitted with no value and the token is
\* then processed as a fresh token: the scan goes on as it does from that
\* token with nothing awaiting.
C20_OptionalLookahead ==
    [][(/\ pc = "scan"
        /\ gen.at = "awaited"
        /\ Stepped
        /\ settings.options[Last(events).parameter.option].optional
        /\ StartsWithDash(args[idx - 1])
        /\ Len(args[idx - 1]) > 1) =>
           LET fresh == NextYield(idx - 1, [sc EXCEPT !.awaiting = <<>>], AtLoop,
                                  args, settings)
           IN  /\ Last(events).parameter.value = Undefined
               /\ events' = events \o fresh.yields
               /\ sc' = fresh.sc
               /\ gen' = fresh.gen
               /\ idx' = fresh.idx]_vars

\* The token does not look like an option.
NoOptionLook(arg) == ~(StartsWithDash(arg) /\ Len(arg) > 1)

\* C21: when an option is awaiting its argument and the next token does not
\* look like an option (it does not start with `-`, or it is the single
\* character `-`), or the argument is required whatever the token looks like,
\* exactly the awaiting option is emitted with that token as its value; the
\* token does not end the options even if it is `--`, nothing else is emitted
\* and no error is raised for it, and the scan goes on with the token after
\* it.
C21_AwaitedValue ==
    [][/\ (/\ Pulls
           /\ gen'.at = "awaited"
           /\ \/ ~settings.options[Last(events').parameter.option].optional
              \/ NoOptionLook(args[idx' - 1])) =>
              /\ Last(events').parameter.value = args[idx' - 1]
              /\ ~sc'.endOptions
       /\ (pc = "scan" /\ gen.at = "awaited" /\ Stepped) =>
              \/ idx' > idx
              \/ idx > Len(args) /\ gen'.at = "returned" /\ events' = events]_vars

\* The offset at which the longest-match split of the bundle from offset i
\* first meets a short form that takes an argument, or 0 when it meets none.
RECURSIVE ArgumentFormAt(_, _)
ArgumentFormAt(arg, i) ==
    IF i >= Len(arg) \/ GreedyEnd(arg, i) = 0 THEN 0
    ELSE IF TakesArgument(Resolved(Substring(arg, i, GreedyEnd(arg, i)))) THEN i
    ELSE ArgumentFormAt(arg, GreedyEnd(arg, i))

\* C22: when the scan of a bundle matches a short form that takes an argument
\* and characters remain after it, exactly one occurrence of that form is
\* yielded, whose value is the whole remainder of the token; nothing is
\* looked up in the remainder, no error is raised for it, and no argument is
\* awaited from the next token: the scan goes on with that token.
C22_InlineRemainder ==
    [][/\ (/\ ScansBundle
           /\ Stepped
           /\ ArgumentFormAt(BundleToken, BundleOffset) = BundleOffset
           /\ GreedyEnd(BundleToken, BundleOffset) < Len(BundleToken)) =>
              LET i == BundleOffset
                  j == GreedyEnd(BundleToken, i)
              IN  /\ gen'.at = "inline"
                  /\ idx' = (IF MidBundle THEN idx ELSE idx + 1)
                  /\ events' = Append(events, Last(events'))
                  /\ Last(events').parameter.value =
                         SubSeq(BundleToken, j + 1, Len(BundleToken))
                  /\ Last(events').subIndex = i - 1
                  /\ Last(events').subLength = j - i
                  /\ sc'.awaiting = <<>>
       /\ (pc = "scan" /\ gen.at = "inline" /\ Stepped) =>
              /\ sc.awaiting = <<>>
              /\ \/ gen'.at = "returned" /\ events' = events
                 \/ idx' > idx
              /\ gen'.at = "awaited" => idx' >= idx + 2]_vars

\* The bundle -MMGMPMFfile was scanned: MF took the remainder `file`.
C22_Witness ==
    /\ pc = "scan"
    /\ idx = 2
    /\ gen.at = "inline"
    /\ args[1] = tBundle
    /\ Len(events) = 4
    /\ Last(events).parameter.value = <<"f", "i", "l", "e">>

\* The result locates, in the bundle token arg, a short form of its option.
LocatesShortForm(r, arg) ==
    /\ "subIndex" \in DOMAIN r
    /\ "subLength" \in DOMAIN r
    /\ r.subIndex + 1 + r.subLength <= Len(arg)
    /\ SubSeq(arg, r.subIndex + 2, r.subIndex + 1 + r.subLength)
           \in ShortForms(settings.options[r.parameter.option])

\* C23: every occurrence that comes out of a bundle, also one completed by
\* the next token, records the subIndex and subLength of a short form of its
\* option in the bundle token; the first occurrence of a bundle has subIndex 0
\* and each following one starts where the one before it ended. Results of
\* long options and positional parameters have neither field.
C23_SubIndex ==
    [][Pulls =>
           LET r     == Last(events')
               start == IF MidBundle
                        THEN Last(events).subIndex + Last(events).subLength
                        ELSE 0
           IN  IF gen'.at \in {"short", "inline"}
               THEN /\ LocatesShortForm(r, args[idx' - 1])
                    /\ r.subIndex = start
               ELSE IF gen'.at = "awaited"
               THEN /\ LocatesShortForm(r, args[idx' - 2])
                    /\ r.subIndex = start
                    /\ r.subIndex + 1 + r.subLength = Len(args[idx' - 2])
               ELSE /\ "subIndex" \notin DOMAIN r
                    /\ "subLength" \notin DOMAIN r]_vars

\* The option MF of the bundle -MF was completed by the next token and keeps
\* the place of MF in the bundle.
C23_Witness ==
    /\ pc = "scan"
    /\ idx = 3
    /\ args[1] = tMF
    /\ events[1].parameter.value = args[2]
    /\ events[1].subIndex = 0
    /\ events[1].subLength = 2

\* C24: the scan of a long-option token met in the scanning state either
\* fails or yields exactly one occurrence, of an option that declares the
\* key, without a value when the token has no `=`, while that token is the
\* last one taken; nothing awaits an argument then, and the end of the
\* options and the position are as they were, so the next token is scanned by
\* the normal rules.
C24_LongNeverAwaits ==
    [][(ScansLong /\ Stepped) =>
           /\ idx' = idx + 1
           /\ sc'.awaiting = <<>>
           /\ sc'.endOptions = sc.endOptions
           /\ sc'.position = sc.position
           /\ \/ gen'.at = "thrown" /\ pc' = "failed" /\ events' = events
              \/ /\ gen'.at = "long"
                 /\ Len(events') = Len(events) + 1
                 /\ SubSeq(events', 1, Len(events)) = events
                 /\ "option" \in DOMAIN Last(events').parameter
                 /\ \E key \in {SubSeq(args[idx], 3, n) : n \in 3..Len(args[idx])} :
                        Last(events').parameter.option \in LongSpecs(key)
                 /\ FirstEquals(args[idx]) = 0 =>
                        Last(events').parameter.value = Undefined]_vars

\* --color, whose argument is optional, was emitted without a value and the
\* token after it was scanned as a positional parameter.
C24_Witness ==
    /\ pc = "scan"
    /\ idx = 3
    /\ args = <<tColor, tX>>
    /\ events[1].parameter.value = Undefined
    /\ events[2].parameter = [position |-> 0, value |-> tX]

\* The key of a long-option token: the text between `--` and the first `=`.
LongKey(arg) ==
    IF FirstEquals(arg) = 0 THEN SubSeq(arg, 3, Len(arg))
    ELSE SubSeq(arg, 3, FirstEquals(arg))

\* The offset at which the longest-match split of the bundle from offset i
\* finds no registered short form, or 0 when the split ends without that.
RECURSIVE StuckAt(_, _)
StuckAt(arg, i) ==
    IF i >= Len(arg) THEN 0
    ELSE IF GreedyEnd(arg, i) = 0 THEN i
    ELSE IF TakesArgument(Resolved(Substring(arg, i, GreedyEnd(arg, i)))) THEN 0
    ELSE StuckAt(arg, GreedyEnd(arg, i))

\* C25: the scan of an option-shaped token met in the scanning state throws
\* an unrecognized-option error exactly when the key is not registered for
\* the shape of the token: for `--key[=value]`, when no option declares key as
\* a long form, and the error names `--key`; for a bundle, at the offset that
\* its split reaches at which no registered short form starts, and the error
\* names the single character at that offset.
C25_Unrecognized ==
    [][/\ (ScansLong /\ Stepped) =>
              /\ Unrecognized <=> LongSpecs(LongKey(args[idx])) = {}
              /\ Unrecognized =>
                     Cause'.subject = <<"-", "-">> \o LongKey(args[idx])
       /\ (ScansBundle /\ Stepped) =>
              /\ Unrecognized <=> StuckAt(BundleToken, BundleOffset) = BundleOffset
              /\ Unrecognized =>
                     Cause'.subject = <<"-", BundleToken[BundleOffset + 1]>>]_vars

\* The token --a failed as unrecognized although a is a registered short form.
C25_Witness ==
    /\ Threw
    /\ error = Error("unrecognized", <<"-", "-", "a">>)
    /\ callerSettings = PrefixSettings
    /\ events # <<>>

\* The places, in emission order, of the positional parameters emitted.
Positionals == {k \in 1..Len(events) : "position" \in DOMAIN events[k].parameter}

\* C26: in a returned result, sequence lists every occurrence emitted, in
\* emission order (an option as an occurrence of the same option, a
\* positional parameter with its position and value); parameters is exactly
\* the positional occurrences of sequence in the same order; and the i-th of
\* them (from 0) has position i.
C26_SequenceAndParameters ==
    Returned =>
        /\ Len(result.sequence) = Len(events)
        /\ \A k \in 1..Len(events) :
               IF k \in Positionals
               THEN result.sequence[k] =
                        [events[k].parameter EXCEPT !.value = Scalar(@)]
               ELSE /\ "option" \in DOMAIN result.sequence[k]
                    /\ result.sequence[k].option = events[k].parameter.option
        /\ {result.parameters[i] : i \in 1..Len(result.parameters)} = Positionals
        /\ \A i, j \in 1..Len(result.parameters) :
               i < j => result.parameters[i] < result.parameters[j]
        /\ \A i \in 1..Len(result.parameters) :
               result.sequence[result.parameters[i]].position = i - 1

\* A result with two positional parameters and an option between them.
C26_Witness ==
    /\ Returned
    /\ Len(result.parameters) = 2
    /\ result.parameters[2] > result.parameters[1] + 1
    /\ DOMAIN result.options # {}

\* C27: in a returned result every entry of sequence holds the value that its
\* own occurrence was emitted with, never a merged list.
C27_SequenceValues ==
    Returned =>
        \A k \in 1..Len(events) :
            /\ k <= Len(result.sequence)
            /\ result.sequence[k].value = Scalar(events[k].parameter.value)

\* C28: merging in options is per option: the value under a key holds only
\* values of occurrences of the option whose occurrence is stored under that
\* key, and when that option occurred once it is its single value, unmerged,
\* also when another matched option has the same key.
C28_MergePerSpec ==
    Returned =>
        \A key \in DOMAIN result.options :
            LET o    == result.sequence[result.options[key]].option
                vals == ValuesOf(o, 1)
            IN  /\ \A n \in 1..Len(OptionValue(key).items) :
                       \E m \in 1..Len(vals) : OptionValue(key).items[n] = vals[m]
                /\ Len(vals) = 1 => OptionValue(key) = Scalar(vals[1])

\* The result awaiting its argument was left by the bundle token arg: it
\* locates a short form that takes an argument and ends the token.
LeftBy(r, arg) ==
    /\ IsBundle(arg)
    /\ LocatesShortForm(r, arg)
    /\ r.subIndex + 1 + r.subLength = Len(arg)
    /\ TakesArgument(settings.options[r.parameter.option])

\* C29: over every step of the scan of a call: endOptions, once true, stays
\* true; nothing is awaited while endOptions is true; at most one result is
\* awaiting its argument; a result is awaiting only where it is yielded with
\* the token that follows its bundle, or where the tokens have ended with its
\* bundle, and that bundle's last short form takes an argument and ends the
\* token; it is cleared by the very next token, so that a result awaiting
\* after a step was left by a token taken in that step; and position is the
\* number of positional parameters emitted.
C29_ScannerState ==
    [][(pc = "scan" /\ pc' \in {"scan", "failed", "done"}) =>
           /\ sc.endOptions => sc'.endOptions
           /\ sc'.endOptions => sc'.awaiting = <<>>
           /\ Len(sc'.awaiting) <= 1
           /\ sc.awaiting # <<>> => gen.at = "awaited"
           /\ sc'.awaiting # <<>> =>
                  \/ /\ gen'.at = "awaited"
                     /\ Len(events') = Len(events) + 1
                     /\ Last(events') = sc'.awaiting[1]
                     /\ idx' >= idx + (IF MidBundle THEN 1 ELSE 2)
                     /\ LeftBy(sc'.awaiting[1], args[idx' - 2])
                  \/ /\ gen'.at = "returned"
                     /\ idx' = Len(args) + 1
                     /\ idx' >= idx + (IF MidBundle THEN 0 ELSE 1)
                     /\ LeftBy(sc'.awaiting[1], args[idx' - 1])
           /\ sc'.position = Cardinality(Positionals')]_vars

\* An option is awaiting its argument after a positional parameter was
\* emitted.
C29_Witness ==
    /\ pc = "scan"
    /\ sc.awaiting # <<>>
    /\ sc.position = 1
    /\ ~sc.endOptions

IsOptionCall(call) == call.fn = "option.callback"

\* The k-th result pulled belongs to an option whose callback throws.
Thrower(k) ==
    /\ "option" \in DOMAIN events[k].parameter
    /\ "callback" \in DOMAIN settings.options[events[k].parameter.option]
    /\ settings.options[events[k].parameter.option].callback = FALSE

\* C30: in every state of a getopt call, also when it has failed by a scanner
\* error or by a callback that threw, the option callbacks invoked are exactly
\* those of the results pulled so far, once each, in emission order, and they
\* come before any other call; a result whose callback throws is the last
\* one pulled, and the call has failed there by what the callback threw.
C30_CallbacksInterleaved ==
    (pc \in {"scan", "done", "failed"} /\ error.kind # "ArgumentError") =>
        /\ SelectSeq(trace, IsOptionCall) = ExpectedCalls(1)
        /\ SubSeq(trace, 1, Len(ExpectedCalls(1))) = ExpectedCalls(1)
        /\ \A k \in 1..Len(events) :
               Thrower(k) => (k = Len(events) /\ Threw /\ Cause = Thrown)
        /\ (Threw /\ Cause = Thrown) =>
               (events # <<>> /\ Thrower(Len(events)))

\* getopt has failed in the middle of a bundle by a callback that threw,
\* after the callbacks of the earlier occurrences were executed.
C30_Witness ==
    /\ Threw
    /\ error.kind = "callback"
    /\ idx > 1
    /\ args[idx - 1] = tKT
    /\ gen.at = "short"
    /\ Len(events) >= 2
    /\ Len(SelectSeq(trace, IsOptionCall)) = Len(events)
    /\ Last(trace).fn = "settings.error"

=============================================================================
